---- MODULE Spec2Model ----
(***************************************************************************)
(* ndi-router: a Videohub-protocol TCP front end for NDI routing.          *)
(*                                                                         *)
(* The model follows src/src/main.rs (the listener, the per-connection     *)
(* `process` task, `Peer::poll_next`, `Shared`), src/src/videohub.rs (the  *)
(* `VideoHub` table and its renderers) and src/src/ndi/mod.rs              *)
(* (`RouteInstance::change`).                                              *)
(*                                                                         *)
(* Text is modelled structurally: a character is a one-letter string, a    *)
(* token is a sequence of characters (a keyword word is one "character"),  *)
(* a line is the sequence of its whitespace-separated tokens, and a text   *)
(* is a sequence of lines.  The blank line is the empty sequence.          *)
(***************************************************************************)
EXTENDS Integers, Sequences, FiniteSets, TLC

\* ------------------------------------------------------------------ bounds
\* Number of client addresses that may connect (each connects at most once).
MaxPeers == 2
\* Largest number of NDI sources discovery may return at startup.
MaxInputs == 2
\* Lines read from all clients together.
MaxLines == 3
\* Lines read from all clients together in the specification whose clients
\* send well-formed locks and routing blocks only.
MaxBlockLines == 6
\* Longest pending block (lines buffered before the blank terminator).
MaxBuf == 2
\* Longest outbound queue, and the number of broadcast calls, of the
\* specification that exercises Shared::broadcast.
MaxQueue == 2
MaxCalls == 2

\* --------------------------------------------------------------- constants
\* main.rs: const NUM_OUTPUTS: usize = 16;
NUM_OUTPUTS == 16

Peers == 1..MaxPeers
NoOne == 0
Err == -1
NoSource == -1
NoHub == <<>>

VARIABLES
    video_hub,   \* Shared.video_hub: the VideoHub table
    iter_order,  \* the key order of the routes map and of the locks map
    inputs,      \* Shared.inputs: the discovered sources, by index
    outputs,     \* Shared.outputs: per output, the source last passed to change
    peers,       \* Shared.peers: addresses holding a Tx handle
    mutex,       \* holder of the Arc<Mutex<Shared>> guard, or NoOne
    pc,          \* position of each connection's process task
    buf,         \* Peer.buf: lines of the pending block
    cur,         \* the Message::Broadcast payload poll_next last yielded
    sent,        \* texts written to the client socket, in order
    rx,          \* contents of each peer's unbounded channel
    hub_clone,   \* the VideoHub clone process() renders the dump from,
                 \* while process() still uses it
    ncalls,      \* calls of Shared::broadcast made so far
    nlines       \* lines read from the clients so far

vars == <<video_hub, iter_order, inputs, outputs, peers, mutex, pc, buf, cur,
          sent, rx, hub_clone, ncalls, nlines>>

\* ------------------------------------------------------------------- text
W(s) == <<s>>
Blank == <<>>
DigitChars == <<"0", "1", "2", "3", "4", "5", "6", "7", "8", "9">>

IsDigit(c) == \E i \in 1..10 : DigitChars[i] = c
DigitVal(c) == (CHOOSE i \in 1..10 : DigitChars[i] = c) - 1

\* format!("{}", n) for an unsigned integer
RECURSIVE FmtUsize(_)
FmtUsize(n) ==
    IF n < 10 THEN <<DigitChars[n + 1]>>
    ELSE FmtUsize(n \div 10) \o <<DigitChars[(n % 10) + 1]>>

\* str::parse::<usize>(): Err on an empty token or a non-digit character
RECURSIVE ParseDigits(_, _)
ParseDigits(tok, acc) ==
    IF tok = <<>> THEN acc
    ELSE IF ~IsDigit(Head(tok)) THEN Err
    ELSE ParseDigits(Tail(tok), acc * 10 + DigitVal(Head(tok)))

ParseUsize(tok) == IF tok = <<>> THEN Err ELSE ParseDigits(tok, 0)

U8(x) == x % 256

KwPing == <<W("PING:")>>
KwRouting == <<W("VIDEO"), W("OUTPUT"), W("ROUTING:")>>
KwLocks == <<W("VIDEO"), W("OUTPUT"), W("LOCKS:")>>
KwOther == <<W("FOO:")>>
NoneLine == <<W("None")>>

\* "ACK\n" handed to the LinesCodec encoder, which appends the line end
AckText == <<<<W("ACK")>>, Blank>>

\* ----------------------------------------------------------- videohub.rs
SourceName(i) == <<W("Source"), FmtUsize(i)>>

VideoHubNew(num_inputs, num_outputs) ==
    [input_lables  |-> [i \in 1..num_inputs |-> <<W("NDI"), W("Input"), FmtUsize(i - 1)>>],
     output_lables |-> [i \in 1..num_outputs |-> <<W("NDI"), W("Output"), FmtUsize(i - 1)>>],
     routes        |-> [k \in {U8(x) : x \in 0..(num_outputs - 1)} |-> k],
     locks         |-> [k \in {U8(x) : x \in 0..(num_outputs - 1)} |-> "None"]]

\* A HashMap visits its keys in an order fixed by its hasher seed and its
\* layout; clone() keeps both and neither map is modified after
\* VideoHub::new, so each map's order is chosen once, at startup.  Two
\* representatives of the unspecified order are explored, ascending and
\* descending; both maps hold the same keys and Init draws one
\* representative for the two of them.
Ascending(n) == [i \in 1..n |-> i - 1]
Descending(n) == [i \in 1..n |-> n - i]
KeyOrders(keys) == {Ascending(Cardinality(keys)), Descending(Cardinality(keys))}

SetInputLabel(vh, index, label) ==
    [vh EXCEPT !.input_lables[index + 1] = label]

Preamble == <<<<W("PROTOCOL"), W("PREAMBLE:")>>, <<W("Version:"), W("2.7")>>, Blank>>

DeviceInfo(vh) ==
    <<<<W("VIDEOHUB"), W("DEVICE:")>>,
      <<W("Device"), W("present:"), W("true")>>,
      <<W("Model"), W("name:"), W("Blackmagic"), W("Smart"), W("Videohub")>>,
      <<W("Video"), W("inputs:"), FmtUsize(Len(vh.input_lables))>>,
      <<W("Video"), W("processing"), W("units:"), W("0")>>,
      <<W("Video"), W("outputs:"), FmtUsize(Len(vh.output_lables))>>,
      <<W("Video"), W("monitoring"), W("outputs:"), W("0")>>,
      <<W("Serial"), W("ports:"), W("0")>>,
      Blank>>

ListInputs(vh) ==
    <<<<W("INPUT"), W("LABELS:")>>>>
    \o [i \in 1..Len(vh.input_lables) |-> <<FmtUsize(i - 1)>> \o vh.input_lables[i]]
    \o <<Blank>>

ListOutputs(vh) ==
    <<<<W("OUTPUT"), W("LABELS:")>>>>
    \o [i \in 1..Len(vh.output_lables) |-> <<FmtUsize(i - 1)>> \o vh.output_lables[i]]
    \o <<Blank>>

\* `order` is the sequence of keys in the order the map's iterator visits them.
ListRoutes(vh, order) ==
    <<KwRouting>>
    \o [n \in 1..Len(order) |-> <<FmtUsize(order[n]), FmtUsize(vh.routes[order[n]])>>]
    \o <<Blank>>

ListLocks(vh, order) ==
    <<KwLocks>>
    \o [n \in 1..Len(order) |-> <<FmtUsize(order[n]), W("U")>>]
    \o <<Blank>>

\* The six blocks process() joins and sends to a new connection.
InitialDump(vh, order) ==
    Preamble \o DeviceInfo(vh) \o ListInputs(vh) \o ListOutputs(vh)
    \o ListRoutes(vh, order.routes) \o ListLocks(vh, order.locks)


\* ---------------------------------------------------------------- main.rs
\* main(): set_input_label for every discovered source, in index order
RECURSIVE SetLabels(_, _, _)
SetLabels(vh, i, n) ==
    IF i >= n THEN vh
    ELSE SetLabels(SetInputLabel(vh, i, SourceName(i)), i + 1, n)

\* PollNext with a blank line that yields the buffered lines and keeps them
PollNextKeepsBuf(b, line) ==
    IF line = Blank
    THEN [msg |-> b, buf |-> b]
    ELSE [msg |-> <<NoneLine>>, buf |-> Append(b, line)]

\* Peer::poll_next on a decoded line: a blank line yields the buffered lines
\* and empties the buffer, any other line is pushed and yields ["None"].
PollNext(b, line) ==
    IF line = Blank
    THEN [msg |-> b, buf |-> <<>>]
    ELSE [msg |-> <<NoneLine>>, buf |-> Append(b, line)]

\* Arm with the "PING:" pattern misspelt, so that PING falls to the `_` arm
ArmPingDropped(msg) ==
    IF Len(msg) < 1 THEN "panic"
    ELSE IF msg[1] = KwRouting THEN (IF Len(msg) < 2 THEN "panic" ELSE "routing")
    ELSE IF msg[1] = KwLocks THEN (IF Len(msg) < 2 THEN "panic" ELSE "locks")
    ELSE "ignore"

\* Arm with the "VIDEO OUTPUT LOCKS:" pattern missing, so that a locks block
\* falls to the `_` arm
ArmLocksIgnored(msg) ==
    IF Len(msg) < 1 THEN "panic"
    ELSE IF msg[1] = KwPing THEN "ping"
    ELSE IF msg[1] = KwRouting THEN (IF Len(msg) < 2 THEN "panic" ELSE "routing")
    ELSE "ignore"

\* Arm with a `_` arm that replies like the "PING:" arm
ArmOtherAcked(msg) ==
    IF Len(msg) < 1 THEN "panic"
    ELSE IF msg[1] = KwPing THEN "ping"
    ELSE IF msg[1] = KwRouting THEN (IF Len(msg) < 2 THEN "panic" ELSE "routing")
    ELSE IF msg[1] = KwLocks THEN (IF Len(msg) < 2 THEN "panic" ELSE "locks")
    ELSE "ping"

\* process(): the match on msg[0].  Indexing an empty msg panics, and so does
\* msg[1] in the routing and locks arms when the block has no second line.
Arm(msg) ==
    IF Len(msg) < 1 THEN "panic"
    ELSE IF msg[1] = KwPing THEN "ping"
    ELSE IF msg[1] = KwRouting THEN (IF Len(msg) < 2 THEN "panic" ELSE "routing")
    ELSE IF msg[1] = KwLocks THEN (IF Len(msg) < 2 THEN "panic" ELSE "locks")
    ELSE "ignore"

\* process(): lines 261-266.  split_whitespace() of msg[1], two
\* next().unwrap().parse::<usize>().unwrap(), Vec::get, then the two unwraps
\* of the looked-up route and source.  Any failed unwrap panics.
RouteArgs(msg, n_outputs, n_inputs) ==
    LET split == msg[2]
        o == IF Len(split) < 1 THEN Err ELSE ParseUsize(split[1])
        i == IF Len(split) < 2 THEN Err ELSE ParseUsize(split[2])
    IN  IF o = Err \/ i = Err THEN [panic |-> TRUE, route |-> Err, source |-> Err]
        ELSE IF o >= n_outputs \/ i >= n_inputs
             THEN [panic |-> TRUE, route |-> o, source |-> i]
        ELSE [panic |-> FALSE, route |-> o, source |-> i]

\* RouteInstance::change: the output's actuator now carries `source`
Change(outs, route, source) == [outs EXCEPT ![route] = source]

\* The Peer (and with it the Rx half of its channel) lives from Peer::new to
\* the end of process()
RxAlive(p) == pc[p] \in {"polling", "route_lock", "acking", "closing"}

\* Broadcast that gives up at a failed send: with a dropped receiver among
\* the Tx handles it visits, no queue is appended to
BroadcastStopsOnError(sender, message) ==
    [q \in Peers |->
        IF /\ q \in peers /\ q # sender /\ RxAlive(q)
           /\ \A r \in peers \ {sender} : RxAlive(r)
        THEN Append(rx[q], message)
        ELSE rx[q]]

\* Shared::broadcast: a send on every Tx of the map but the sender's; a send
\* whose receiver was dropped returns Err, which `let _ =` discards.
Broadcast(sender, message) ==
    [q \in Peers |->
        IF q \in peers /\ q # sender /\ RxAlive(q)
        THEN Append(rx[q], message)
        ELSE rx[q]]

Active(p) == pc[p] \in {"polling", "route_lock", "acking"}
Ended(p) == pc[p] \in {"closed", "failed", "panicked"}

Init ==
    /\ \E n \in 1..MaxInputs :
         /\ video_hub = SetLabels(VideoHubNew(n, NUM_OUTPUTS), 0, n)
         /\ inputs = [i \in 1..n |-> SourceName(i - 1)]
    /\ \E ko \in KeyOrders(DOMAIN video_hub.routes) :
         iter_order = [routes |-> ko, locks |-> ko]
    /\ outputs = [o \in 0..(NUM_OUTPUTS - 1) |-> NoSource]
    /\ peers = {}
    /\ mutex = NoOne
    /\ pc = [p \in Peers |-> "idle"]
    /\ buf = [p \in Peers |-> <<>>]
    /\ cur = [p \in Peers |-> <<>>]
    /\ sent = [p \in Peers |-> <<>>]
    /\ rx = [p \in Peers |-> <<>>]
    /\ hub_clone = [p \in Peers |-> NoHub]
    /\ ncalls = 0
    /\ nlines = 0

\* main(): listener.accept() and tokio::spawn(process(..))
Accept(p) ==
    /\ pc[p] = "idle"
    /\ pc' = [pc EXCEPT ![p] = "accepted"]
    /\ UNCHANGED <<video_hub, iter_order, inputs, outputs, peers, mutex, buf,
                   cur, sent, rx, hub_clone, ncalls, nlines>>

\* process(): state.lock().await.video_hub.clone(); the guard is a temporary
Snapshot(p) ==
    /\ pc[p] = "accepted"
    /\ mutex = NoOne
    /\ hub_clone' = [hub_clone EXCEPT ![p] = video_hub]
    /\ pc' = [pc EXCEPT ![p] = "dumping"]
    /\ UNCHANGED <<video_hub, iter_order, inputs, outputs, peers, mutex, buf,
                   cur, sent, rx, ncalls, nlines>>

\* process(): lines.send(initial_dump.join("")).await?  The write succeeds, or
\* it fails (the client has reset the connection) and `?` returns the error.
\* The clone is not used after the dump is built.
SendDump(p) ==
    /\ pc[p] = "dumping"
    /\ \/ /\ sent' = [sent EXCEPT ![p] = Append(@, InitialDump(hub_clone[p], iter_order))]
          /\ pc' = [pc EXCEPT ![p] = "registering"]
       \/ /\ sent' = sent
          /\ pc' = [pc EXCEPT ![p] = "failed"]
    /\ hub_clone' = [hub_clone EXCEPT ![p] = NoHub]
    /\ UNCHANGED <<video_hub, iter_order, inputs, outputs, peers, mutex, buf,
                   cur, rx, ncalls, nlines>>

\* Peer::new: peer_addr()? fails on a connection that is already gone;
\* otherwise the Tx is inserted into Shared.peers under the lock.
Register(p) ==
    /\ pc[p] = "registering"
    /\ \/ /\ mutex = NoOne
          /\ peers' = peers \cup {p}
          /\ pc' = [pc EXCEPT ![p] = "polling"]
       \/ /\ peers' = peers
          /\ pc' = [pc EXCEPT ![p] = "failed"]
    /\ UNCHANGED <<video_hub, iter_order, inputs, outputs, mutex, buf, cur,
                   sent, rx, hub_clone, ncalls, nlines>>

\* The Peer is dropped when the task ends: its buffer and the Rx half of its
\* channel (with whatever is queued) go with it.
DropPeer(p, to) ==
    /\ pc' = [pc EXCEPT ![p] = to]
    /\ buf' = [buf EXCEPT ![p] = <<>>]
    /\ cur' = [cur EXCEPT ![p] = <<>>]
    /\ rx' = [rx EXCEPT ![p] = <<>>]

\* process(): one turn of `while let Some(result) = peer.next().await` on a
\* decoded line, up to the first await of the selected arm.
ReadLine(p, line) ==
    /\ pc[p] = "polling"
    /\ nlines' = nlines + 1
    /\ LET r == PollNext(buf[p], line)
           arm == Arm(r.msg)
       IN  IF arm = "panic"
           THEN DropPeer(p, "panicked")
           ELSE /\ buf' = [buf EXCEPT ![p] = r.buf]
                /\ cur' = [cur EXCEPT ![p] = r.msg]
                /\ pc' = [pc EXCEPT ![p] =
                      CASE arm = "ping" -> "acking"
                        [] arm = "locks" -> "acking"
                        [] arm = "routing" -> "route_lock"
                        [] OTHER -> "polling"]
                /\ rx' = rx
    /\ UNCHANGED <<video_hub, iter_order, inputs, outputs, peers, mutex, sent,
                   hub_clone, ncalls>>

\* process(): a line the codec cannot decode; the Err(e) arm prints the error
\* and the loop goes on
ReadError(p) ==
    /\ pc[p] = "polling"
    /\ nlines' = nlines + 1
    /\ UNCHANGED <<video_hub, iter_order, inputs, outputs, peers, mutex, pc,
                   buf, cur, sent, rx, hub_clone, ncalls>>

\* Peer::poll_next yields None: the while loop ends (buf and the last
\* message are not read again)
ReadEof(p) ==
    /\ pc[p] = "polling"
    /\ pc' = [pc EXCEPT ![p] = "closing"]
    /\ buf' = [buf EXCEPT ![p] = <<>>]
    /\ cur' = [cur EXCEPT ![p] = <<>>]
    /\ UNCHANGED <<video_hub, iter_order, inputs, outputs, peers, mutex, sent,
                   rx, hub_clone, ncalls, nlines>>

\* RouteChange with the guard kept by a session whose routing arm panics
RouteChangeKeepsLock(p) ==
    /\ pc[p] = "route_lock"
    /\ mutex = NoOne
    /\ LET a == RouteArgs(cur[p], NUM_OUTPUTS, Len(inputs))
       IN  IF a.panic
           THEN /\ DropPeer(p, "panicked")
                /\ mutex' = p
                /\ UNCHANGED outputs
           ELSE /\ outputs' = Change(outputs, a.route, a.source)
                /\ mutex' = p
                /\ pc' = [pc EXCEPT ![p] = "acking"]
                /\ UNCHANGED <<buf, cur, rx>>
    /\ UNCHANGED <<video_hub, iter_order, inputs, peers, sent, hub_clone,
                   ncalls, nlines>>

\* process(): the routing arm from state.lock().await to route.change(..);
\* a panic unwinds and drops the guard, otherwise the guard is kept.
RouteChange(p) ==
    /\ pc[p] = "route_lock"
    /\ mutex = NoOne
    /\ LET a == RouteArgs(cur[p], NUM_OUTPUTS, Len(inputs))
       IN  IF a.panic
           THEN /\ DropPeer(p, "panicked")
                /\ UNCHANGED <<outputs, mutex>>
           ELSE /\ outputs' = Change(outputs, a.route, a.source)
                /\ mutex' = p
                /\ pc' = [pc EXCEPT ![p] = "acking"]
                /\ UNCHANGED <<buf, cur, rx>>
    /\ UNCHANGED <<video_hub, iter_order, inputs, peers, sent, hub_clone,
                   ncalls, nlines>>

\* Ack with a reply step that writes ACK twice
AckTwice(p) ==
    /\ pc[p] = "acking"
    /\ \/ /\ sent' = [sent EXCEPT ![p] = Append(Append(@, AckText), AckText)]
          /\ pc' = [pc EXCEPT ![p] = "polling"]
          /\ UNCHANGED <<buf, cur, rx>>
       \/ /\ sent' = sent
          /\ DropPeer(p, "failed")
    /\ mutex' = IF mutex = p THEN NoOne ELSE mutex
    /\ UNCHANGED <<video_hub, iter_order, inputs, outputs, peers, hub_clone,
                   ncalls, nlines>>

\* process(): peer.lines.send("ACK\n").await? of the three arms: the write
\* succeeds, or it fails and `?` returns the error.  The routing arm's guard
\* is dropped when the arm ends and when `?` returns.
Ack(p) ==
    /\ pc[p] = "acking"
    /\ \/ /\ sent' = [sent EXCEPT ![p] = Append(@, AckText)]
          /\ pc' = [pc EXCEPT ![p] = "polling"]
          /\ UNCHANGED <<buf, cur, rx>>
       \/ /\ sent' = sent
          /\ DropPeer(p, "failed")
    /\ mutex' = IF mutex = p THEN NoOne ELSE mutex
    /\ UNCHANGED <<video_hub, iter_order, inputs, outputs, peers, hub_clone,
                   ncalls, nlines>>

\* process(): state.lock().await; state.peers.remove(&addr); return Ok(())
Deregister(p) ==
    /\ pc[p] = "closing"
    /\ mutex = NoOne
    /\ peers' = peers \ {p}
    /\ DropPeer(p, "closed")
    /\ UNCHANGED <<video_hub, iter_order, inputs, outputs, mutex, sent,
                   hub_clone, ncalls, nlines>>

\* ----------------------------------------------------------------- clients
Keywords == {KwPing, KwRouting, KwLocks, KwOther}

Params ==
    {<<FmtUsize(1), FmtUsize(0)>>,
     <<FmtUsize(0), FmtUsize(1)>>,
     <<FmtUsize(NUM_OUTPUTS), FmtUsize(0)>>,
     <<FmtUsize(1)>>,
     <<FmtUsize(0), W("U")>>}

\* The lines a client sends next, given the block it has sent so far: a
\* keyword line opens a block, parameter lines follow a routing or locks
\* keyword, and a blank line may come at any time.
ClientLines(b) ==
    {Blank}
    \cup (IF b = <<>> THEN Keywords ELSE {})
    \cup (IF Len(b) >= 1 /\ Len(b) < MaxBuf /\ b[1] \in {KwRouting, KwLocks}
          THEN Params ELSE {})

ServerStep(p) ==
    \/ Snapshot(p)
    \/ SendDump(p)
    \/ Register(p)
    \/ RouteChange(p)
    \/ Ack(p)
    \/ Deregister(p)

ClientStep(p) ==
    \/ Accept(p)
    \/ nlines < MaxLines /\ \E line \in ClientLines(buf[p]) : ReadLine(p, line)
    \/ nlines < MaxLines /\ ReadError(p)
    \/ ReadEof(p)

Next == \E p \in Peers : ServerStep(p) \/ ClientStep(p)

Spec == Init /\ [][Next]_vars

\* ------------------------------------------------------- Shared::broadcast
\* process() never calls Shared::broadcast.  SpecBroadcast runs the same
\* sessions and lets a caller that holds the registry lock invoke it, so that
\* the function and the outbound queues it fills can be examined.
BroadcastTexts == {<<KwRouting, <<FmtUsize(1), FmtUsize(0)>>, Blank>>}

BroadcastCall(sender, message) ==
    /\ mutex = NoOne
    /\ ncalls < MaxCalls
    /\ \A q \in Peers : Len(rx[q]) < MaxQueue
    /\ rx' = Broadcast(sender, message)
    /\ ncalls' = ncalls + 1
    /\ UNCHANGED <<video_hub, iter_order, inputs, outputs, peers, mutex, pc,
                   buf, cur, sent, hub_clone, nlines>>

BroadcastLines(b) ==
    {Blank}
    \cup (IF b = <<>> THEN {KwPing, KwRouting} ELSE {})
    \cup (IF b = <<KwRouting>> /\ Len(b) < MaxBuf
          THEN {<<FmtUsize(1), FmtUsize(0)>>, <<FmtUsize(NUM_OUTPUTS), FmtUsize(0)>>}
          ELSE {})

BroadcastClientStep(p) ==
    \/ Accept(p)
    \/ nlines < MaxLines /\ \E line \in BroadcastLines(buf[p]) : ReadLine(p, line)
    \/ ReadEof(p)

NextBroadcast ==
    \E p \in Peers :
        \/ ServerStep(p)
        \/ BroadcastClientStep(p)
        \/ \E m \in BroadcastTexts : BroadcastCall(p, m)

\* The runtime schedules every spawned task that can run, so each session's
\* own steps are weakly fair; what a client sends, and when, is not.
SpecBroadcast ==
    Init /\ [][NextBroadcast]_vars /\ \A p \in Peers : WF_vars(ServerStep(p))


\* ------------------------------------------------------------------ claims
\* What a command block asks for, read off its parameter line
CmdOutput(msg) == IF Len(msg) < 2 \/ Len(msg[2]) < 1 THEN Err ELSE ParseUsize(msg[2][1])
CmdInput(msg) == IF Len(msg) < 2 \/ Len(msg[2]) < 2 THEN Err ELSE ParseUsize(msg[2][2])
NumOutputs == Len(video_hub.output_lables)
NumInputs == Len(video_hub.input_lables)
InRange(msg) ==
    /\ CmdOutput(msg) \in 0..(NumOutputs - 1)
    /\ CmdInput(msg) \in 0..(NumInputs - 1)
OutOfRange(msg) ==
    /\ CmdOutput(msg) # Err
    /\ CmdInput(msg) # Err
    /\ ~InRange(msg)
Malformed(msg) == CmdOutput(msg) = Err \/ CmdInput(msg) = Err

\* Steps of session p, recognised from the two states of the step
ReadsBlank(p) ==
    pc[p] = "polling" /\ buf[p] # <<>> /\ buf'[p] = <<>> /\ pc'[p] # "closing"
RoutingHandled(p) == pc[p] = "route_lock" /\ pc'[p] # "route_lock"
RoutingAcked(p) ==
    pc[p] = "acking" /\ cur[p][1] = KwRouting /\ pc'[p] = "polling"
StaysUsable(p) == pc'[p] \in {"polling", "route_lock", "acking"} /\ p \in peers'
SharedUnchanged ==
    /\ video_hub' = video_hub
    /\ outputs' = outputs
    /\ peers' = peers
    /\ rx' = rx

\* C1: once a routing command with in-range indices has been processed (its
\* ACK is written), the routing table maps that output to that input, and
\* handling the command changes no other output's assignment.
C1_RouteUpdatesTable ==
    [][\A p \in Peers :
         /\ (RoutingAcked(p) /\ InRange(cur[p]))
               => video_hub'.routes[CmdOutput(cur[p])] = CmdInput(cur[p])
         /\ (RoutingHandled(p) /\ InRange(cur[p]))
               => \A o \in DOMAIN video_hub.routes :
                     o # CmdOutput(cur[p])
                        => video_hub'.routes[o] = video_hub.routes[o]]_vars

\* C2: when a routing command with in-range indices is acknowledged, the
\* sender has been written ACK, the block's text is at the tail of the queue
\* of every other registered peer, and the sender's own queue is untouched.
C2_RouteIsBroadcast ==
    [][\A p \in Peers :
         (RoutingAcked(p) /\ InRange(cur[p]))
            => /\ sent'[p] = Append(sent[p], AckText)
               /\ rx'[p] = rx[p]
               /\ \A q \in peers \ {p} :
                     /\ rx'[q] # <<>>
                     /\ rx'[q][Len(rx'[q])] = cur[p] \o <<Blank>>]_vars

\* C3: a routing command whose output index is >= N or whose input index is
\* >= M changes neither the table, the actuators, the peer map nor any queue,
\* and leaves the session active and registered.
C3_OutOfRangeRejected ==
    [][\A p \in Peers :
         (RoutingHandled(p) /\ OutOfRange(cur[p]))
            => SharedUnchanged /\ StaysUsable(p)]_vars

\* C4: every output's assigned input index is a valid input index.
C4_RoutesInRange ==
    \A o \in DOMAIN video_hub.routes :
        video_hub.routes[o] \in 0..(NumInputs - 1)

\* C5: a session whose handler has ended, by whichever path, is no longer in
\* the peer map; the map holds only connections that are still live.
C5_EndedIsDeregistered ==
    \A p \in Peers : Ended(p) => p \notin peers

\* C6: a PING: block is answered with exactly one ACK: reading its blank line
\* takes the session to the reply without touching shared state, the reply
\* step appends one ACK to what the client is written (or the write fails,
\* on a connection the client has reset, and the session ends), and neither
\* step changes the routing table, the lock flags, the actuators, the peer
\* map or any queue.
C6_PingAcked ==
    [][\A p \in Peers :
         /\ (ReadsBlank(p) /\ buf[p][1] = KwPing)
               => /\ pc'[p] = "acking"
                  /\ cur'[p] = buf[p]
                  /\ sent' = sent
                  /\ mutex' = mutex
                  /\ SharedUnchanged
         /\ (pc[p] = "acking" /\ cur[p][1] = KwPing /\ pc'[p] # "acking")
               => /\ \/ pc'[p] = "polling" /\ sent'[p] = Append(sent[p], AckText)
                     \/ pc'[p] = "failed" /\ sent'[p] = sent[p]
                  /\ \A q \in Peers \ {p} : sent'[q] = sent[q]
                  /\ mutex' = mutex
                  /\ SharedUnchanged
         /\ (pc[p] = "polling" /\ cur[p] # <<>> /\ cur[p][1] = KwPing /\ cur'[p] = cur[p])
               => sent'[p] = sent[p]]_vars

\* C6 witness: a session that received a PING: block has been written ACK and
\* is polling again.
C6_Witness ==
    \E p \in Peers :
        /\ pc[p] = "polling"
        /\ cur[p] = <<KwPing>>
        /\ Len(sent[p]) >= 2
        /\ sent[p][Len(sent[p])] = AckText
        /\ p \in peers

\* C7: a broadcast from a registered sender appends the message once to the
\* queue of every other registered peer and to no other queue, and leaves
\* the peer map and the routing table unchanged.
C7_BroadcastReachesAllOthers ==
    [][\A s \in Peers, m \in BroadcastTexts :
         (BroadcastCall(s, m) /\ s \in peers)
            => /\ \A q \in Peers :
                     rx'[q] = IF q \in peers \ {s} THEN Append(rx[q], m) ELSE rx[q]
               /\ peers' = peers
               /\ video_hub' = video_hub]_vars

\* C8: a message on the queue of an active session is eventually written to
\* that session's client, unless the session stops being active first.
C8_QueuedIsDelivered ==
    \A p \in Peers :
        (Active(p) /\ rx[p] # <<>>)
            ~> \/ ~Active(p)
               \/ \E k \in 1..Len(sent[p]) : sent[p][k] \in BroadcastTexts

\* C9: a routing or locks block with a malformed parameter line (no parameter
\* line, one index only, a non-numeric index) changes no shared state and
\* leaves the session active and registered.
C9_MalformedRejected ==
    [][\A p \in Peers :
         /\ (ReadsBlank(p) /\ buf[p][1] \in {KwRouting, KwLocks} /\ Malformed(buf[p]))
               => SharedUnchanged /\ StaysUsable(p)
         /\ (RoutingHandled(p) /\ Malformed(cur[p]))
               => SharedUnchanged /\ StaysUsable(p)]_vars

\* C10: the status dump is the first text a connection is written and it is
\* written only once the peer is registered; a peer is deregistered only
\* after the dump.
C10_RegisterThenDump ==
    [][\A p \in Peers :
         /\ (sent[p] = <<>> /\ sent'[p] # <<>>)
               => /\ p \in peers
                  /\ sent'[p] = <<InitialDump(video_hub, iter_order)>>
         /\ (p \in peers /\ p \notin peers') => sent[p] # <<>>]_vars

\* Both maps visited in ascending key order
AscendingOrder ==
    [routes |-> Ascending(Cardinality(DOMAIN video_hub.routes)),
     locks  |-> Ascending(Cardinality(DOMAIN video_hub.locks))]

\* C11: the table is never mutated, so all the status dumps written are the
\* same text, and that text lists every block in ascending index order: it is
\* the rendering of the table with both maps visited in ascending key order.
C11_DumpAscending ==
    \A p \in Peers :
        sent[p] # <<>>
           => /\ sent[p][1] = InitialDump(video_hub, AscendingOrder)
              /\ \A q \in Peers : sent[q] # <<>> => sent[q][1] = sent[p][1]

\* C12: a decode error on a session's socket ends its event sequence: the
\* step that reads the error takes the session out of the Active state, on
\* the way to deregistration.
C12_DecodeErrorEndsSession ==
    [][\A p \in Peers :
         ReadError(p) => pc'[p] \in {"closing", "closed", "failed"}]_vars

\* ---------------------------------------------------------------- fairness
\* A session's steps that need no client: taking the registry lock,
\* registering, the route change, deregistering.
LocalStep(p) ==
    \/ Snapshot(p)
    \/ Register(p)
    \/ RouteChange(p)
    \/ Deregister(p)

\* A session's socket writes: they complete when the client reads what it is
\* sent (or fail when it has reset the connection).
WriteStep(p) ==
    \/ SendDump(p)
    \/ Ack(p)

\* The step in which session p fails: its task returns an error or panics
Fails(p) ==
    /\ pc[p] \notin {"failed", "panicked"}
    /\ pc'[p] \in {"failed", "panicked"}

\* C13: the failure of one session (a returned error or a panic, also one
\* raised in the routing arm, under the registry lock) changes nothing of any
\* other session and leaves the lock free or with its other holder; the lock
\* is only ever held by a session that is about to write its reply, so a
\* connection can always be accepted, and a session waiting for the lock can
\* always go on once the holder has replied.
C13_FailureIsolated ==
    /\ [][\A p \in Peers :
            Fails(p)
               => /\ \A q \in Peers \ {p} :
                        /\ pc'[q] = pc[q]
                        /\ buf'[q] = buf[q]
                        /\ cur'[q] = cur[q]
                        /\ sent'[q] = sent[q]
                        /\ rx'[q] = rx[q]
                  /\ mutex' # p
                  /\ mutex # p => mutex' = mutex]_vars
    /\ [](\A p \in Peers :
            /\ mutex = p => pc[p] = "acking" /\ ENABLED Ack(p)
            /\ pc[p] = "idle" => ENABLED Accept(p)
            /\ (mutex = NoOne /\ pc[p] \in {"accepted", "registering", "route_lock", "closing"})
                  => ENABLED LocalStep(p))

\* C13 witness: a registered session has panicked once three lines were read
\* (a routing block with a bad index panics under the registry lock) and
\* another connection has been accepted, written its dump and registered.
C13_Witness ==
    \E p, q \in Peers :
        /\ pc[p] = "panicked"
        /\ p \in peers
        /\ outputs = [o \in 0..(NUM_OUTPUTS - 1) |-> NoSource]
        /\ nlines >= 3
        /\ pc[q] = "polling"
        /\ q \in peers
        /\ cur[q] = <<>>
        /\ Len(sent[q]) = 1

\* Every task that can run is scheduled, so the steps a session takes on its
\* own are weakly fair; a socket write completes when the client reads what
\* it is sent, and all clients but one (any one) keep reading.  What a client
\* sends, and when, is not constrained.
SpecStalled ==
    /\ Init
    /\ [][Next]_vars
    /\ \A p \in Peers : WF_vars(LocalStep(p))
    /\ \E s \in Peers : \A p \in Peers \ {s} : WF_vars(WriteStep(p))

\* C14: a session that waits for the registry lock (to take its snapshot, to
\* run a routing command, to deregister) eventually gets it, even if one
\* other client has stopped reading from its socket.
C14_NoWaitOnOtherPeer ==
    \A q \in Peers :
        \A w \in {"accepted", "route_lock", "closing"} :
            (pc[q] = w) ~> (pc[q] # w)

\* ------------------------------------------------- locks and routing blocks
\* SpecLocks runs the same sessions with clients that send only complete,
\* well-formed blocks: a PING: block, a locks block for output 0 or a
\* routing block for output 0 or output 1.
LocksParam == <<FmtUsize(0), W("U")>>
RoutingParam == <<FmtUsize(0), FmtUsize(0)>>
RoutingParamOther == <<FmtUsize(1), FmtUsize(0)>>

LocksLines(b) ==
    IF b = <<>> THEN {KwPing, KwLocks, KwRouting}
    ELSE IF b = <<KwLocks>> THEN {LocksParam}
    ELSE IF b = <<KwRouting>> THEN {RoutingParam, RoutingParamOther}
    ELSE {Blank}

LocksClientStep(p) ==
    \/ Accept(p)
    \/ nlines < MaxBlockLines /\ \E line \in LocksLines(buf[p]) : ReadLine(p, line)
    \/ ReadEof(p)

NextLocks == \E p \in Peers : ServerStep(p) \/ LocksClientStep(p)

SpecLocks == Init /\ [][NextLocks]_vars

\* Session q has been written the ACK of a locks block for output o
LockAcked(q, o) ==
    /\ pc[q] = "polling"
    /\ Len(cur[q]) >= 2
    /\ cur[q][1] = KwLocks
    /\ CmdOutput(cur[q]) = o
    /\ sent[q][Len(sent[q])] = AckText

C16_UnknownIgnored ==
    [][\A p \in Peers :
         (ReadsBlank(p) /\ buf[p][1] \notin {KwPing, KwRouting, KwLocks})
            => /\ pc'[p] = "polling"
               /\ p \in peers'
               /\ cur'[p] = buf[p]
               /\ sent' = sent
               /\ mutex' = mutex
               /\ SharedUnchanged]_vars

\* C16 witness: a registered session has read a complete block with an
\* unknown keyword, is polling again, and has been written its dump only.
C16_Witness ==
    \E p \in Peers :
        /\ pc[p] = "polling"
        /\ p \in peers
        /\ cur[p] = <<KwOther>>
        /\ buf[p] = <<>>
        /\ Len(sent[p]) = 1

\* C17: a session that is about to write to its client's socket (the status
\* dump or an ACK) does not hold the registry lock.
C17_NoSendUnderLock ==
    \A p \in Peers : pc[p] \in {"dumping", "acking"} => mutex # p

\* The lines the clients of SpecLocks send
BlockLines ==
    {KwPing, KwLocks, KwRouting, LocksParam, RoutingParam, RoutingParamOther, Blank}

\* C18: a non-blank line is appended to the session's buffer and starts no
\* command (the session goes on polling; no reply, no change of the table,
\* the actuators, the peer map, the queues or the lock); a blank line
\* empties the buffer and hands exactly the lines buffered since the last
\* blank line, in the order read, to one dispatch, so the next block starts
\* from an empty buffer.
C18_OneCommandPerBlock ==
    [][\A p \in Peers : \A line \in BlockLines :
         ReadLine(p, line)
            => IF line # Blank
               THEN /\ buf'[p] = Append(buf[p], line)
                    /\ pc'[p] = "polling"
                    /\ sent' = sent
                    /\ mutex' = mutex
                    /\ SharedUnchanged
               ELSE /\ buf'[p] = <<>>
                    /\ cur'[p] = buf[p]
                    /\ pc'[p] = IF buf[p][1] = KwRouting THEN "route_lock" ELSE "acking"
                    /\ sent' = sent]_vars

\* C18 witness: a session has completed two blocks; the second, a routing
\* block, was dispatched with exactly its own two lines, and the buffer is
\* empty again.
C18_Witness ==
    \E p \in Peers :
        /\ pc[p] = "polling"
        /\ Len(sent[p]) = 3
        /\ sent[p][2] = AckText
        /\ sent[p][3] = AckText
        /\ cur[p] = <<KwRouting, RoutingParam>>
        /\ buf[p] = <<>>

InRouteChange(p, o) ==
    /\ mutex = p
    /\ pc[p] = "acking"
    /\ CmdOutput(cur[p]) = o

\* C20: two sessions are never inside a route change for the same output at
\* the same time, and a session whose routing command is ready to run has to
\* wait only while another session is inside a route change for the same
\* output: if none is, its route change can be taken at once, whatever route
\* changes for other outputs are in progress.
C20_SerializedPerOutput ==
    \A q \in Peers :
        /\ \A p \in Peers \ {q} : \A o \in 0..(NUM_OUTPUTS - 1) :
              ~(InRouteChange(p, o) /\ InRouteChange(q, o))
        /\ (/\ pc[q] = "route_lock"
            /\ InRange(cur[q])
            /\ \A p \in Peers \ {q} : ~InRouteChange(p, CmdOutput(cur[q])))
              => ENABLED RouteChange(q)

\* The step in which session p takes a decoded line from its socket
SocketLineRead(p) ==
    /\ pc[p] = "polling"
    /\ nlines' = nlines + 1
    /\ (buf'[p] # buf[p] \/ pc'[p] # pc[p])

\* C21: a poll looks at the outbound queue before the socket, so a session
\* takes a line from its socket only when its queue is empty: a message that
\* was queued while the client was sending a block has been written to the
\* client before the next line of the block, and so before the block's
\* blank line, is read.
C21_OutboundBeforeSocket ==
    [][\A p \in Peers : SocketLineRead(p) => rx[p] = <<>>]_vars

\* ------------------------------------------- broadcast from any address
\* Shared::broadcast takes the sender's address as an argument and skips
\* that key of the map; SpecSenders lets it be called with the address of
\* any connection and with an address that is not one of the modelled
\* connections.
Outsider == MaxPeers + 1

\* Its clients send a blank line first (which ends the session with the
\* peer still in the map) or one complete routing block.
SendersLines(b) ==
    IF b = <<>> THEN {Blank, KwRouting}
    ELSE IF b = <<KwRouting>> THEN {RoutingParam}
    ELSE {Blank}

SendersClientStep(p) ==
    \/ Accept(p)
    \/ nlines < MaxLines /\ \E line \in SendersLines(buf[p]) : ReadLine(p, line)
    \/ ReadEof(p)

NextSenders ==
    \/ \E p \in Peers : ServerStep(p) \/ SendersClientStep(p)
    \/ \E s \in Peers \cup {Outsider}, m \in BroadcastTexts : BroadcastCall(s, m)

SpecSenders == Init /\ [][NextSenders]_vars

\* Peer q is still in the map although its session has ended: the receiving
\* end of its queue is gone
Stale(q) == q \in peers /\ Ended(q)

\* C22: a broadcast that meets a registered peer whose receiving end is gone
\* drops that delivery only: the message is appended once to the queue of
\* every other registered peer but the sender, the caller goes on as before
\* (no session changes position, the lock is as it was), and the peer map,
\* the table and the actuators are unchanged.
C22_FailedEnqueueDropped ==
    [][\A s \in Peers \cup {Outsider}, m \in BroadcastTexts :
         (BroadcastCall(s, m) /\ \E q \in Peers \ {s} : Stale(q))
            => /\ \A r \in Peers :
                     rx'[r] = IF r \in peers /\ r # s /\ ~Stale(r)
                              THEN Append(rx[r], m)
                              ELSE rx[r]
               /\ pc' = pc
               /\ mutex' = mutex
               /\ peers' = peers
               /\ video_hub' = video_hub
               /\ outputs' = outputs]_vars

\* C22 witness: one registered peer's session has ended, and another
\* registered peer has a message on its queue that a broadcast put there
\* (the queue of the ended one is empty).
C22_Witness ==
    \E q, r \in Peers :
        /\ Stale(q)
        /\ rx[q] = <<>>
        /\ r \in peers
        /\ Active(r)
        /\ rx[r] # <<>>
        /\ ncalls = 1

\* C23: a blank line read while the session's buffer is empty is harmless:
\* the session goes on polling, registered and with an empty buffer, nothing
\* is written to any client, and the table, the actuators, the peer map, the
\* queues and the lock are unchanged.
C23_EmptyBlockHarmless ==
    [][\A p \in Peers :
         (ReadLine(p, Blank) /\ buf[p] = <<>>)
            => /\ pc'[p] = "polling"
               /\ p \in peers'
               /\ buf'[p] = <<>>
               /\ sent' = sent
               /\ mutex' = mutex
               /\ SharedUnchanged]_vars

\* C24: whenever the registry lock is free, every output whose actuator has
\* been switched is assigned, in the table, the input its actuator was last
\* switched to.
C24_TableMatchesActuators ==
    mutex = NoOne
       => \A o \in DOMAIN outputs :
             outputs[o] # NoSource => video_hub.routes[U8(o)] = outputs[o]

\* Session q has taken the snapshot its status dump is rendered from
HasSnapshot(q) == pc[q] \in {"dumping", "registering", "polling", "route_lock", "acking"}

\* The dump of session q, sent or still to be rendered from its snapshot,
\* assigns input i to output o
DumpShows(q, o, i) ==
    IF pc[q] = "dumping"
    THEN hub_clone[q].routes[U8(o)] = i
    ELSE \E k \in 1..Len(sent[q][1]) : sent[q][1][k] = <<FmtUsize(o), FmtUsize(i)>>

\* C25: when a session's routing command has been carried out and
\* acknowledged, every other session that has already taken its snapshot
\* either shows the new assignment in its dump or has the command's text on
\* its queue; this holds in particular for a session that is between its
\* snapshot and its registration.
C25_NoChangeMissed ==
    [][\A p \in Peers :
         (RoutingAcked(p) /\ InRange(cur[p]))
            => \A q \in Peers \ {p} :
                  HasSnapshot(q)
                     => \/ DumpShows(q, CmdOutput(cur[p]), CmdInput(cur[p]))
                        \/ \E k \in 1..Len(rx'[q]) : rx'[q][k] = cur[p] \o <<Blank>>]_vars

====
